---- MODULE Spec2Model ----
(***************************************************************************)
(* Model of the data-access layer of starlite-bedrock:                     *)
(*   repository.py  (SQLRepositoryBase, BaseRepository)                     *)
(*   service.py     (DataAccessService)                                     *)
(*   orm.py         (BaseModel, IntegerPrimaryKeyMixin, SlugModelMixin,     *)
(*                   ExpiresAtMixin)                                        *)
(*   starlite/      (session_after_request, DatabaseSessionMiddleware,      *)
(*                   limit_offset_pagination)                               *)
(*                                                                         *)
(* The storage engine is modelled by two sets of rows: `store`, the        *)
(* committed table, and `session`, the table as the AsyncSession sees it   *)
(* (committed rows plus the changes staged in the open transaction).       *)
(* A row is a record [row, id, slug, a, b, expires_at], with created_at     *)
(* and updated_at for a model with CreatedUpdatedAtMixin; `row` is the      *)
(* identity of the Python instance / physical row and is not a column.     *)
(*                                                                         *)
(* The service calls the repository without the `db` argument the          *)
(* repository methods declare; the model binds `db` to the session the     *)
(* service and the repository were both constructed with.                  *)
(*                                                                         *)
(* Specifications:                                                         *)
(*   SpecPage       paginate and get_multi over a table fixed at Init       *)
(*   Spec           create and update (repository and service)              *)
(*   SpecRead       create and get_by_id                                    *)
(*   SpecDelete     create, Repository.delete and Service.remove            *)
(*   SpecExpiry     create, delete_expired and the clock                    *)
(*   SpecCommit     every mutating operation under both commit flags        *)
(*   SpecSlug       get_available_slug and create by one caller             *)
(*   SpecSlugTasks  get_available_slug and create by concurrent tasks       *)
(*   SpecOrder      order_by over lists of accessor paths                   *)
(*   SpecTimed      create, update and the clock on a timestamped model     *)
(*   SpecCreatedAt  create, update of created_at and the clock              *)
(*   SpecAbsent     update and delete of instances no row matches           *)
(*   SpecPageTasks  paginate beside the commits of other tasks              *)
(*   SpecUnit       one unit of work of the service and its end             *)
(*   SpecCount      count and paginate of statements with own clauses       *)
(*   SpecOrderOn    order_by on statements with and without ORDER BY        *)
(*   SpecRequest    one request through the hook or the middleware          *)
(*   SpecPaging     limit_offset_pagination over pages and page sizes       *)
(*   SpecFail       creates and committing updates that can fail            *)
(***************************************************************************)
EXTENDS Integers, Sequences, FiniteSets, TLC

\* ---------------------------------------------------------------- bounds
MaxRows == 3          \* rows in the table of the pagination specification
MaxLimit == 3         \* largest limit argument
MaxOffset == 3        \* largest offset / skip argument
MaxVal == 2           \* values of the data columns a and b are 1..MaxVal
MaxCreates == 2       \* INSERTs attempted in one behaviour
MaxTime == 2          \* clock ticks in one behaviour, each of one Lifetime
RecursionDepth == 2   \* frames the interpreter allows before RecursionError

\* ------------------------------------------------------------- constants
NoId == 0             \* Python None in the id attribute of an unflushed instance
NoLimit == -1         \* a Select without LIMIT / OFFSET clause
UuidBase == 100       \* uuid4 values are drawn from UuidBase + 1, UuidBase + 2, ...
Lifetime == 3600      \* ExpiresAtMixin.__lifetime_seconds__

Vals == 1..MaxVal
Slugs == {"s1", "s2"}
Models == {"uuid", "identity"}

VARIABLES
    model,      \* record type of the repository: BaseModel ("uuid") or with IntegerPrimaryKeyMixin
    store,      \* committed rows
    session,    \* rows as seen by the AsyncSession (staged changes included)
    seq,        \* number of primary keys generated so far (sequence / uuid4 draws)
    objs,       \* number of model instances constructed so far
    now,        \* clock
    call,       \* the repository/service call in progress
    ret,        \* outcome of the last completed call
    created     \* history: [row, id] of every instance returned by create(commit=True)

vars == <<model, store, session, seq, objs, now, call, ret, created>>

\* --------------------------------------------------------------- helpers
Min(x, y) == IF x < y THEN x ELSE y
Max(x, y) == IF x > y THEN x ELSE y

NoExc == [type |-> "none", cause |-> "none"]
Idle == [op |-> "idle"]
NoRet == [op |-> "none", exc |-> NoExc]

\* ------------------------------------------------- exception hierarchy
\* sqlalchemy.exc: IntegrityError < DBAPIError < SQLAlchemyError,
\* OperationalError < DBAPIError, NoResultFound < InvalidRequestError < SQLAlchemyError.
EngineErrors == {"IntegrityError", "OperationalError", "DBAPIError", "NoResultFound"}

IsIntegrityError(e) == e = "IntegrityError"
IsSQLAlchemyError(e) == e \in EngineErrors

\* Mutant: the generic clause is tried first and swallows integrity errors.
catch_generic_first(e) ==
    IF e = "none" THEN NoExc
    ELSE IF IsSQLAlchemyError(e) THEN [type |-> "RepositoryException", cause |-> e]
    ELSE IF IsIntegrityError(e) THEN [type |-> "RepositoryConflictException", cause |-> e]
    ELSE [type |-> e, cause |-> "none"]

\* SQLRepositoryBase.catch_sqlalchemy_exception: the exception leaving the
\* with-block when the body raised e ("none": the body returned).
catch_sqlalchemy_exception(e) ==
    IF e = "none" THEN NoExc
    ELSE IF IsIntegrityError(e) THEN [type |-> "RepositoryConflictException", cause |-> e]
    ELSE IF IsSQLAlchemyError(e) THEN [type |-> "RepositoryException", cause |-> e]
    ELSE [type |-> e, cause |-> "none"]

\* An exception raised outside every with-block reaches the caller as it is.
Raw(e) == IF e = "none" THEN NoExc ELSE [type |-> e, cause |-> "none"]


\* ============================================================ queries
\* A Select statement: `where` is [col, val] for WHERE col = val and NoFilter
\* for a statement without WHERE; ordcol = "none" is a statement without
\* ORDER BY; lim / off = NoLimit is a statement without LIMIT / OFFSET.
NoFilter == [col |-> "none", val |-> 0]
FilterBy(col, val) == [col |-> col, val |-> val]
Statement(where, ordcol, desc, lim, off) ==
    [where |-> where, ordcol |-> ordcol, desc |-> desc, lim |-> lim, off |-> off]

Matching(rows, stmt) ==
    {r \in rows : stmt.where.col = "none" \/ r[stmt.where.col] = stmt.where.val}

\* Position of r before q in the result of a statement ordered by col;
\* equal keys, and statements without ORDER BY, fall back to storage order.
Before(r, q, col, desc) ==
    IF col = "none" \/ r[col] = q[col] THEN r.row < q.row
    ELSE IF desc THEN r[col] > q[col] ELSE r[col] < q[col]

RECURSIVE SortRows(_, _, _)
SortRows(rows, col, desc) ==
    IF rows = {} THEN << >>
    ELSE LET first == CHOOSE r \in rows : \A q \in rows \ {r} : Before(r, q, col, desc)
         IN  <<first>> \o SortRows(rows \ {first}, col, desc)

\* OFFSET then LIMIT applied to a result sequence.
Window(sq, lim, off) ==
    LET skip == IF off = NoLimit THEN 0 ELSE off
        rest == IF skip >= Len(sq) THEN << >> ELSE SubSeq(sq, skip + 1, Len(sq))
    IN  IF lim = NoLimit \/ lim >= Len(rest) THEN rest ELSE SubSeq(rest, 1, lim)

\* AsyncSession.execute of a Select: the result rows in order.
ExecuteSelect(rows, stmt) ==
    Window(SortRows(Matching(rows, stmt), stmt.ordcol, stmt.desc), stmt.lim, stmt.off)

\* BaseRepository.count: SELECT count(*) with the statement's WHERE, LIMIT
\* and OFFSET kept and its ORDER BY removed.  The aggregate yields one row,
\* to which LIMIT / OFFSET then apply; scalar_one() raises NoResultFound,
\* outside the translation boundary, when no row is left.
count(rows, stmt) ==
    LET result == Window(<<Cardinality(Matching(rows, stmt))>>, stmt.lim, stmt.off)
    IN  IF Len(result) = 1 THEN [exc |-> NoExc, val |-> result[1]]
        ELSE [exc |-> Raw("NoResultFound"), val |-> 0]

\* Mutant: OFFSET is applied after LIMIT has cut the result.
paginated_limit_first(stmt, limit, offset) ==
    [stmt EXCEPT !.lim = Max(limit - offset, 0), !.off = offset]

\* BaseRepository.paginate, line 244: statement.offset(offset).limit(limit)
\* replaces the statement's own OFFSET and LIMIT.
paginated_statement(stmt, limit, offset) ==
    [stmt EXCEPT !.off = offset, !.lim = limit]

\* Repository.paginate has no sort arguments.
NoSortArgs == [order_by |-> "", sort_order |-> "none"]

\* BaseRepository.paginate is entered: both queries are dispatched by gather.
\* `args` are the sort arguments of the caller, kept for the record.
PaginateEnter(caller, stmt, limit, offset, args) ==
    call' = [op |-> "paginate", caller |-> caller, stmt |-> stmt,
             limit |-> limit, offset |-> offset, args |-> args,
             countDone |-> FALSE, pageDone |-> FALSE,
             count |-> [exc |-> NoExc, val |-> 0], page |-> << >>]

\* Repository.paginate(statement, limit, offset) called directly.
Paginate(stmt, limit, offset) ==
    /\ call = Idle
    /\ PaginateEnter("repository", stmt, limit, offset, NoSortArgs)
    /\ ret' = NoRet
    /\ UNCHANGED <<model, store, session, seq, objs, now, created>>

\* Column attributes of the model class listed by get_multi.
PageColumns == {"id", "a", "b"}
\* getattr(self.model, name, default)
GetAttr(name, default) == IF name \in PageColumns THEN name ELSE default

\* DataAccessService.get_multi up to the call of paginate: order_by = "" is
\* no sort field, sort_order is "asc", "desc" or "none" (None).
GetMulti(skip, limit, order_by, sort_order, flt) ==
    /\ call = Idle
    /\ LET sort == IF sort_order # "none" THEN sort_order ELSE "desc"
           order == IF order_by # "" /\ GetAttr(order_by, "") # ""
                    THEN GetAttr(sort, "id") ELSE "id"
           desc == sort_order = "desc"
       IN  PaginateEnter("service", Statement(flt, order, desc, limit, skip), limit, skip,
                         [order_by |-> order_by, sort_order |-> sort_order])
    /\ ret' = NoRet
    /\ UNCHANGED <<model, store, session, seq, objs, now, created>>

\* The count task of gather runs its query.
PaginateCount ==
    /\ call.op = "paginate" /\ ~call.countDone
    /\ call' = [call EXCEPT !.countDone = TRUE, !.count = count(session, call.stmt)]
    /\ UNCHANGED <<model, store, session, seq, objs, now, ret, created>>

\* The windowed task of gather runs its query.
PaginatePage ==
    /\ call.op = "paginate" /\ ~call.pageDone
    /\ call' = [call EXCEPT !.pageDone = TRUE,
                   !.page = ExecuteSelect(session,
                               paginated_statement(call.stmt, call.limit, call.offset))]
    /\ UNCHANGED <<model, store, session, seq, objs, now, ret, created>>

\* gather returns when both tasks are done, or raises as soon as one raised;
\* paginate returns (rows, count); get_multi wraps them with limit and skip.
PaginateReturn ==
    /\ call.op = "paginate"
    /\ \/ call.countDone /\ call.pageDone
       \/ call.countDone /\ call.count.exc # NoExc
    /\ ret' = IF call.count.exc # NoExc
              THEN [op |-> "paginate", caller |-> call.caller, exc |-> call.count.exc,
                    stmt |-> call.stmt, limit |-> call.limit, skip |-> call.offset,
                    args |-> call.args, count |-> 0, results |-> << >>]
              ELSE [op |-> "paginate", caller |-> call.caller, exc |-> NoExc,
                    stmt |-> call.stmt, limit |-> call.limit, skip |-> call.offset,
                    args |-> call.args, count |-> call.count.val, results |-> call.page]
    /\ call' = Idle
    /\ UNCHANGED <<model, store, session, seq, objs, now, created>>

\* ------------------------------------------- pagination specification
PageRow(i, a) == [row |-> i, id |-> UuidBase + i, a |-> a, b |-> 1]
PageStores == UNION {{ {PageRow(i, f[i]) : i \in 1..n} : f \in [1..n -> Vals] } : n \in 0..MaxRows}
OrderNames == {"", "a", "zz"}
SortOrders == {"asc", "desc", "none"}
PageFilters == {NoFilter} \cup {FilterBy("a", v) : v \in Vals}

PageInit ==
    /\ model = "uuid"
    /\ store \in PageStores
    /\ session = store
    /\ seq = Cardinality(store)
    /\ objs = Cardinality(store)
    /\ now = 0
    /\ call = Idle
    /\ ret = NoRet
    /\ created = {}

\* The calls read the table and leave it as it is, so a behaviour follows
\* one call from every table, with every argument.
PageNext ==
    \/ /\ ret = NoRet
       /\ \E flt \in PageFilters, limit \in 1..MaxLimit, offset \in 0..MaxOffset :
             Paginate(Statement(flt, "none", FALSE, NoLimit, NoLimit), limit, offset)
    \/ /\ ret = NoRet
       /\ \E skip \in 0..MaxOffset, limit \in 1..MaxLimit, ob \in OrderNames,
             so \in SortOrders, flt \in PageFilters :
             GetMulti(skip, limit, ob, so, flt)
    \/ PaginateCount
    \/ PaginatePage
    \/ PaginateReturn

SpecPage == PageInit /\ [][PageNext]_vars

\* ------------------------------------------------- pagination claims
\* Rows of the committed table matching the filter of a statement.
TotalMatching(stmt) == Cardinality(Matching(store, stmt))

\* C1: Repository.paginate(query, limit, offset) on a query without LIMIT /
\* OFFSET of its own and N matching rows returns exactly
\* min(limit, max(0, N - offset)) records and total_count = N.
C1_PaginateWindowAndTotal ==
    (ret.op = "paginate" /\ ret.caller = "repository") =>
        /\ ret.exc = NoExc
        /\ ret.count = TotalMatching(ret.stmt)
        /\ Len(ret.results) = Min(ret.limit, Max(0, TotalMatching(ret.stmt) - ret.skip))

\* A last, partly filled page was returned (the offset = 20 of 25 case).
C1_Witness ==
    /\ ret.op = "paginate" /\ ret.caller = "repository" /\ ret.exc = NoExc
    /\ ret.skip > 0
    /\ Len(ret.results) > 0 /\ Len(ret.results) < ret.limit
    /\ ret.count > Len(ret.results)

\* C2: Service.get_multi returns count = the number of rows matching the
\* filter whatever skip and limit are, echoes limit and skip, and returns
\* the page of at most limit matching rows starting at position skip.
C2_GetMultiCountIndependentOfWindow ==
    (ret.op = "paginate" /\ ret.caller = "service") =>
        /\ ret.exc = NoExc
        /\ ret.count = TotalMatching(ret.stmt)
        /\ ret.limit = ret.stmt.lim /\ ret.skip = ret.stmt.off
        /\ ret.results = Window(SortRows(Matching(store, ret.stmt), ret.stmt.ordcol,
                                         ret.stmt.desc), ret.limit, ret.skip)

\* ====================================================== rows and flush
NoTime == 0           \* expires_at not yet set on a new instance
ForeignId == 99       \* a primary key value no generator of the model produces

\* Mutant: the next key is derived from the rows present, not from a sequence.
NextId_from_table(m, n) ==
    LET base == IF m = "identity" THEN 0 ELSE UuidBase
        used == {r.id : r \in session} \ {NoId}
    IN  IF used = {} THEN base + 1
        ELSE 1 + CHOOSE i \in used : \A j \in used : j <= i

\* The n-th primary key generated: BaseModel.id default=uuid.uuid4 (draws
\* never repeat), IntegerPrimaryKeyMixin.id Identity(always=True).
NextId(m, n) == IF m = "identity" THEN n ELSE UuidBase + n

\* unique=True on id (primary key) and on SlugModelMixin.slug.
UniqueOk(rows) ==
    \A r, q \in rows : r # q => (r.id # q.id /\ r.slug # q.slug)

\* _get_default_expires_at: the column default of ExpiresAtMixin.expires_at.
default_expires_at(t) == t + Lifetime

\* The clock when orm.py was imported; 0 stands for None, so the clock of a
\* behaviour with timestamps starts one Lifetime after 0.
ImportTime == Lifetime

\* CreatedUpdatedAtMixin.created_at: default=datetime.now(timezone.utc) is
\* evaluated when the class body runs, so the column default is that one
\* value; updated_at has no default.
default_created_at == ImportTime

\* INSERT of the pending instances, in order of construction: the column
\* defaults (id, expires_at, created_at) are filled in where the instance
\* has no value.
RECURSIVE InsertPending(_, _, _, _)
InsertPending(pending, m, n, t) ==
    IF pending = {} THEN {}
    ELSE LET r == CHOOSE x \in pending : \A y \in pending : x.row <= y.row
         IN  {[f \in DOMAIN r |->
                  IF f = "id" THEN NextId(m, n + 1)
                  ELSE IF f = "expires_at" /\ r[f] = NoTime THEN default_expires_at(t)
                  ELSE IF f = "created_at" /\ r[f] = NoTime THEN default_created_at
                  ELSE r[f]]}
             \cup InsertPending(pending \ {r}, m, n + 1, t)

\* session.dirty as far as the table shows it: the persistent rows that
\* differ from their committed state.
Modified(rows) ==
    {r.row : r \in {x \in rows : \E q \in store : q.row = x.row /\ q # x}}

\* touch_updated_timestamp, the before_flush listener: every dirty instance
\* whose updated_at is truthy gets updated_at = now.
touch_updated_timestamp(rows, dirty, t) ==
    {IF r.row \in dirty /\ "updated_at" \in DOMAIN r /\ r.updated_at # NoTime
     THEN [r EXCEPT !.updated_at = t] ELSE r : r \in rows}

\* Session.flush: the before_flush listener runs on the dirty instances,
\* then INSERT of the pending rows and UPDATE of the changed ones.  An
\* identity column generated ALWAYS rejects an UPDATE of its value; a
\* duplicate id or slug is an integrity error.  A failed flush rolls the
\* transaction back; the keys it consumed are not given back.
Flush(rows, dirty, m, n, t) ==
    LET touched == touch_updated_timestamp(rows, dirty, t)
        pending == {r \in touched : r.id = NoId}
        flushed == (touched \ pending) \cup InsertPending(pending, m, n, t)
        rekeyed == \E r \in rows, s \in store : r.row = s.row /\ r.id # s.id
        exc == IF m = "identity" /\ rekeyed THEN "DBAPIError"
               ELSE IF ~UniqueOk(flushed) THEN "IntegrityError"
               ELSE "none"
    IN  [rows |-> IF exc = "none" THEN flushed ELSE store,
         seq |-> n + Cardinality(pending),
         exc |-> exc]

\* BaseRepository.commit / BaseRepository.refresh: `await db.commit()` and
\* `await db.refresh(db_object)` stand outside every with-block, so what
\* the engine raises there leaves the repository as it is.
commit(e) == Raw(e)

\* BaseRepository.create / BaseRepository.update: db.add(instance); with
\* commit, db.commit() and db.refresh(instance).  `staged` is the session
\* after db.add.  Result: the session, the store, the key counter, the
\* exception raised and the instance as refreshed.  An instance handed to
\* update is dirty (its attributes were set), a new one is not.
AddAndCommit(staged, inst, withCommit, m, n, t) ==
    LET dirty == Modified(staged) \cup (IF inst.id # NoId THEN {inst.row} ELSE {})
        fl == Flush(staged, dirty, m, n, t)
    IN  IF ~withCommit
        THEN [session |-> staged, store |-> store, seq |-> n, exc |-> NoExc, val |-> {inst}]
        ELSE [session |-> fl.rows,
              store |-> IF fl.exc = "none" THEN fl.rows ELSE store,
              seq |-> fl.seq,
              exc |-> commit(fl.exc),
              val |-> IF fl.exc = "none" THEN {r \in fl.rows : r.row = inst.row} ELSE {}]

\* self.model(**obj_in_data): a new instance with the attributes of the
\* payload, keys and defaults not yet set.
NewInstance(p) ==
    [f \in {"row", "id", "expires_at"} \cup DOMAIN p |->
        IF f = "row" THEN objs + 1
        ELSE IF f = "id" THEN NoId
        ELSE IF f = "expires_at" THEN NoTime
        ELSE p[f]]

\* The record {a: 1, b: 2} under each slug.
CreatePayloads == [slug : Slugs, a : {1}, b : {2}]

\* Repository.create(db_object, commit) and, with caller = "service",
\* DataAccessService.create(obj_in), which calls it with commit=True.
Create(caller, p, withCommit) ==
    /\ call = Idle
    /\ objs < MaxCreates
    /\ LET inst == NewInstance(p)
           res == AddAndCommit(session \cup {inst}, inst, withCommit, model, seq, now)
       IN  /\ session' = res.session
           /\ store' = res.store
           /\ seq' = res.seq
           /\ ret' = [op |-> "create", caller |-> caller, commit |-> withCommit,
                      dup |-> \E r \in store : r.slug = p.slug,
                      payload |-> p, at |-> now,
                      exc |-> res.exc, val |-> res.val]
           /\ created' = IF withCommit /\ res.exc = NoExc
                         THEN created \cup {[row |-> r.row, id |-> r.id] : r \in res.val}
                         ELSE created
    /\ objs' = objs + 1
    /\ UNCHANGED <<model, now, call>>

\* BaseModel.dict: the column names of the instance.
dict(r) == DOMAIN r \ {"row"}

\* Mutant: replace semantics, a column missing from the payload is reset.
update_fields_replace(r, p) ==
    [f \in DOMAIN r |-> IF f \in dict(r) /\ f \in DOMAIN p THEN p[f]
                        ELSE IF f \in {"a", "b"} THEN 0 ELSE r[f]]

\* DataAccessService.update, lines 229-231: for every column of the
\* instance that is a key of the payload, the payload's value is set.
update_fields(r, p) ==
    [f \in DOMAIN r |-> IF f \in dict(r) /\ f \in DOMAIN p THEN p[f] ELSE r[f]]

\* Partial payloads, one with a key that is no column, one per unique column.
UpdatePayloads ==
    {[b |-> 3], [a |-> 3, zz |-> 3], [a |-> 1, b |-> 2]}
    \cup {[slug |-> x] : x \in Slugs}
    \cup {[id |-> i] : i \in {NextId(model, 1), ForeignId}}

\* DataAccessService.update(db_obj, obj_in) with Repository.update(db_obj).
Update(r, p) ==
    /\ call = Idle
    /\ r \in session /\ r.id # NoId
    /\ LET inst == update_fields(r, p)
           res == AddAndCommit((session \ {r}) \cup {inst}, inst, TRUE, model, seq, now)
       IN  /\ session' = res.session
           /\ store' = res.store
           /\ seq' = res.seq
           /\ ret' = [op |-> "update", caller |-> "service", commit |-> TRUE,
                      dup |-> \E q \in store \ {r} : q.slug = inst.slug \/ q.id = inst.id,
                      old |-> r, payload |-> p, at |-> now, exc |-> res.exc]
    /\ UNCHANGED <<model, objs, now, call, created>>

\* ------------------------------------------------------ reads, delete
\* What the engine can raise inside db.execute besides the errors of the
\* flush that precedes the statement: a lost connection, a timeout of the
\* awaiting task.
Faults == {"none", "OperationalError", "TimeoutError"}

\* BaseRepository.execute: db.execute inside the translation boundary.
\* The session flushes its staged rows before the statement runs
\* (autoflush); an error of that flush is raised by db.execute.
execute(fault) ==
    LET fl == Flush(session, Modified(session), model, seq, now)
        raised == IF fl.exc # "none" THEN fl.exc ELSE fault
    IN  [rows |-> fl.rows, seq |-> fl.seq, raised |-> raised,
         exc |-> catch_sqlalchemy_exception(raised)]

\* Mutant: a single-row fetch that finds no row raises the not-found error.
get_one_or_none_strict(rows, stmt, exc) ==
    LET result == ExecuteSelect(rows, stmt)
    IN  IF exc # NoExc THEN [exc |-> exc, val |-> {}]
        ELSE IF result = << >>
             THEN [exc |-> Raw("RepositoryNotFoundException"), val |-> {}]
             ELSE [exc |-> NoExc, val |-> {result[1]}]

\* BaseRepository.get_one_or_none after its call of execute: results.first()
\* is None (the empty set here) or the first row; exc is what execute raised.
get_one_or_none(rows, stmt, exc) ==
    LET result == ExecuteSelect(rows, stmt)
    IN  IF exc # NoExc THEN [exc |-> exc, val |-> {}]
        ELSE IF result = << >> THEN [exc |-> NoExc, val |-> {}]
             ELSE [exc |-> NoExc, val |-> {result[1]}]

\* BaseRepository.get_by_id, lines 315-322: the statement it builds.
by_id_statement(id) == Statement(FilterBy("id", id), "none", FALSE, NoLimit, NoLimit)

LookupIds == {NextId(model, k) : k \in 1..MaxCreates} \cup {ForeignId}

\* Repository.get_by_id(id) and, with caller = "service",
\* DataAccessService.get_by_id(id), which returns the row's representation
\* or None.
GetById(caller, id, fault) ==
    /\ call = Idle
    /\ LET ex == execute(fault)
           res == get_one_or_none(ex.rows, by_id_statement(id), ex.exc)
       IN  /\ session' = ex.rows
           /\ seq' = ex.seq
           /\ ret' = [op |-> "get_by_id", caller |-> caller, id |-> id,
                      raised |-> ex.raised, exc |-> res.exc, val |-> res.val]
    /\ UNCHANGED <<model, store, objs, now, call, created>>

\* BaseRepository.delete is entered: its first statement is
\* `await self.delete(db, db_object)`.
DeleteEnter(caller, r, withCommit, rows) ==
    call' = [op |-> "delete", caller |-> caller, obj |-> r, commit |-> withCommit,
             before |-> rows, depth |-> 1]

\* Repository.delete(db_object, commit) called directly.
Delete(r, withCommit) ==
    /\ call = Idle
    /\ r \in session /\ r.id # NoId
    /\ DeleteEnter("repository", r, withCommit, session)
    /\ ret' = NoRet
    /\ UNCHANGED <<model, store, session, seq, objs, now, created>>

\* DataAccessService.remove(id): get_by_id, then Repository.delete(db_obj)
\* when a row was found, else None.
Remove(id) ==
    /\ call = Idle
    /\ LET ex == execute("none")
           res == get_one_or_none(ex.rows, by_id_statement(id), ex.exc)
       IN  /\ session' = ex.rows
           /\ seq' = ex.seq
           /\ IF res.exc = NoExc /\ res.val # {}
              THEN /\ DeleteEnter("service", CHOOSE r \in res.val : TRUE, FALSE, ex.rows)
                   /\ ret' = NoRet
              ELSE /\ call' = call
                   /\ ret' = [op |-> "remove", caller |-> "service", id |-> id,
                              raised |-> ex.raised, exc |-> res.exc,
                              before |-> ex.rows, found |-> {}, val |-> {}]
    /\ UNCHANGED <<model, store, objs, now, created>>

\* One more frame of BaseRepository.delete calls itself (line 414).
DeleteRecurse ==
    /\ call.op = "delete"
    /\ call.depth < RecursionDepth
    /\ call' = [call EXCEPT !.depth = @ + 1]
    /\ UNCHANGED <<model, store, session, seq, objs, now, ret, created>>

\* The interpreter's recursion limit is reached: RecursionError unwinds
\* every frame of delete, and remove when it was the caller; no frame has
\* come to a statement of the session or to line 415.
DeleteOverflow ==
    /\ call.op = "delete"
    /\ call.depth = RecursionDepth
    /\ ret' = IF call.caller = "service"
              THEN [op |-> "remove", caller |-> "service", id |-> call.obj.id,
                    raised |-> "none", exc |-> Raw("RecursionError"),
                    before |-> call.before, found |-> {call.obj}, val |-> {}]
              ELSE [op |-> "delete", caller |-> "repository", obj |-> call.obj,
                    commit |-> call.commit, exc |-> Raw("RecursionError")]
    /\ call' = Idle
    /\ UNCHANGED <<model, store, session, seq, objs, now, created>>

\* Mutant: a record is expired from its expiry time on.
expired_from(r, t) == r.expires_at <= t

\* The WHERE clause of delete_expired: self.model.expires_at < t.
expired(r, t) == r.expires_at < t

\* ExpiresAtMixin.delete_expired: DELETE ... WHERE expires_at < now, run
\* through _execute_statement inside the translation boundary; nothing is
\* committed.  `before` is the table the statement ran on, `at` its time.
DeleteExpired(fault) ==
    /\ call = Idle
    /\ LET ex == execute(fault)
       IN  /\ session' = IF ex.exc = NoExc
                         THEN {r \in ex.rows : ~expired(r, now)}
                         ELSE ex.rows
           /\ seq' = ex.seq
           /\ ret' = [op |-> "delete_expired", raised |-> ex.raised, exc |-> ex.exc,
                      before |-> ex.rows, at |-> now]
    /\ UNCHANGED <<model, store, objs, now, call, created>>

\* Time passes, one lifetime at a step.
Tick ==
    /\ call = Idle
    /\ now < MaxTime * Lifetime
    /\ now' = now + Lifetime
    /\ UNCHANGED <<model, store, session, seq, objs, call, ret, created>>

\* ------------------------------------------------ CRUD specification
Callers == {"repository", "service"}

Init ==
    /\ model \in Models
    /\ store = {}
    /\ session = {}
    /\ seq = 0
    /\ objs = 0
    /\ now = 0
    /\ call = Idle
    /\ ret = NoRet
    /\ created = {}

\* Writes: creates and updates through the repository and the service.
Next ==
    \/ \E p \in CreatePayloads, withCommit \in BOOLEAN : Create("repository", p, withCommit)
    \/ \E p \in CreatePayloads : Create("service", p, TRUE)
    \/ \E r \in session, p \in UpdatePayloads : Update(r, p)

Spec == Init /\ [][Next]_vars

\* ------------------------------------------------ read specification
\* Creates and single-row fetches.
ReadNext ==
    \/ \E p \in CreatePayloads, withCommit \in BOOLEAN : Create("repository", p, withCommit)
    \/ \E c \in Callers, id \in LookupIds, fault \in Faults : GetById(c, id, fault)

SpecRead == Init /\ [][ReadNext]_vars

\* ---------------------------------------------- delete specification
\* Creates, Repository.delete and Service.remove.
DeleteNext ==
    \/ \E p \in CreatePayloads, withCommit \in BOOLEAN : Create("repository", p, withCommit)
    \/ \E r \in session, withCommit \in BOOLEAN : Delete(r, withCommit)
    \/ \E id \in LookupIds : Remove(id)
    \/ DeleteRecurse
    \/ DeleteOverflow

SpecDelete == Init /\ [][DeleteNext]_vars

\* ---------------------------------------------- expiry specification
\* Creates, the expiry sweep and the clock: the behaviours in which rows
\* leave the table.
ExpiryNext ==
    \/ \E p \in CreatePayloads, withCommit \in BOOLEAN : Create("repository", p, withCommit)
    \/ \E fault \in Faults : DeleteExpired(fault)
    \/ Tick

SpecExpiry == Init /\ [][ExpiryNext]_vars

\* ============================================================== claims
\* C3: a create or update with commit=True that violates a unique
\* constraint (duplicate slug or id) raises the repository's conflict
\* error, never the raw engine exception.
C3_UniqueViolationRaisesConflict ==
    (ret.op \in {"create", "update"} /\ ret.commit /\ ret.dup) =>
        ret.exc.type = "RepositoryConflictException"

\* C4: inside the translation boundary an engine integrity error leaves as
\* the conflict error chained from it, any other engine error as the base
\* repository error chained from it, and any other exception unchanged.
C4_TranslationBoundary ==
    ret.op = "get_by_id" =>
        /\ ret.raised = "none" => ret.exc = NoExc
        /\ ret.raised = "IntegrityError" =>
              ret.exc = [type |-> "RepositoryConflictException", cause |-> "IntegrityError"]
        /\ ret.raised \in EngineErrors \ {"IntegrityError"} =>
              ret.exc = [type |-> "RepositoryException", cause |-> ret.raised]
        /\ ret.raised \notin EngineErrors \cup {"none"} =>
              ret.exc = [type |-> ret.raised, cause |-> "none"]

\* An integrity error raised inside db.execute was translated.
C4_Witness ==
    /\ ret.op = "get_by_id"
    /\ ret.raised = "IntegrityError"
    /\ ret.exc.type = "RepositoryConflictException"

C7_DeleteRemovesRow ==
    ret.op = "delete" =>
        /\ ret.exc = NoExc
        /\ ret.obj \notin session
        /\ ret.commit => ret.obj \notin store

\* C8: Service.remove(id) with no such record returns None, raises nothing
\* and changes nothing; with such a record it deletes that record only and
\* returns the representation the record had.
C8_RemoveDeletesAndReturns ==
    (ret.op = "remove" /\ ret.raised = "none") =>
        /\ ret.exc = NoExc
        /\ ret.found = {} => (ret.val = {} /\ session = ret.before)
        /\ ret.found # {} => (ret.val = ret.found /\ session = ret.before \ ret.found)

C10_IdImmutable ==
    \A r \in store, c \in created : r.row = c.row => r.id = c.id

\* ================================================ the commit flag
\* Pairs of payloads handed to create_many.
CreateManyPayloads == {<<p, q>> : p \in CreatePayloads, q \in CreatePayloads}

\* Repository.create_many(db_objects, commit): db.add of every instance;
\* with commit, db.commit() and no refresh.  The instances are returned.
CreateMany(ps, withCommit) ==
    /\ call = Idle
    /\ objs + 2 <= MaxCreates
    /\ LET first == NewInstance(ps[1])
           second == [NewInstance(ps[2]) EXCEPT !.row = objs + 2]
           res == AddAndCommit(session \cup {first, second}, first, withCommit,
                               model, seq, now)
       IN  /\ session' = res.session
           /\ store' = res.store
           /\ seq' = res.seq
           /\ ret' = [op |-> "create_many", caller |-> "repository",
                      commit |-> withCommit, committed |-> store, exc |-> res.exc,
                      val |-> {r \in res.session : r.row \in {first.row, second.row}}]
           /\ created' = IF withCommit /\ res.exc = NoExc
                         THEN created \cup {[row |-> r.row, id |-> r.id] :
                                 r \in {q \in res.session : q.row \in {first.row, second.row}}}
                         ELSE created
    /\ objs' = objs + 2
    /\ UNCHANGED <<model, now, call>>

\* Repository.update(db_object, commit) on an instance whose attributes the
\* caller has set from p: db.add; with commit, db.commit() and db.refresh.
RepositoryUpdate(r, p, withCommit) ==
    /\ call = Idle
    /\ r \in session /\ r.id # NoId
    /\ LET inst == update_fields(r, p)
           res == AddAndCommit((session \ {r}) \cup {inst}, inst, withCommit,
                               model, seq, now)
       IN  /\ session' = res.session
           /\ store' = res.store
           /\ seq' = res.seq
           /\ ret' = [op |-> "update", caller |-> "repository", commit |-> withCommit,
                      dup |-> \E q \in store \ {r} : q.slug = inst.slug \/ q.id = inst.id,
                      old |-> r, payload |-> p, committed |-> store,
                      exc |-> res.exc, val |-> res.val]
    /\ UNCHANGED <<model, objs, now, call, created>>

\* The caller commits the shared session (session.commit() of the unit of
\* work): the staged rows are flushed and the transaction is committed.
SessionCommit ==
    /\ call = Idle
    /\ session # store
    /\ LET fl == Flush(session, Modified(session), model, seq, now)
       IN  /\ session' = fl.rows
           /\ store' = IF fl.exc = "none" THEN fl.rows ELSE store
           /\ seq' = fl.seq
           /\ ret' = [op |-> "commit", caller |-> "session", exc |-> Raw(fl.exc),
                      staged |-> session]
    /\ UNCHANGED <<model, objs, now, call, created>>

\* ---------------------------------------------- commit specification
\* Every mutating operation of the repository under both values of its
\* commit flag, and the caller's own commit of the session.
CommitPayloads == {[b |-> 3], [a |-> 3, zz |-> 3]}

CommitNext ==
    \/ \E p \in CreatePayloads, withCommit \in BOOLEAN : Create("repository", p, withCommit)
    \/ \E ps \in CreateManyPayloads, withCommit \in BOOLEAN : CreateMany(ps, withCommit)
    \/ \E r \in session, p \in CommitPayloads, withCommit \in BOOLEAN :
          RepositoryUpdate(r, p, withCommit)
    \/ \E r \in session, withCommit \in BOOLEAN : Delete(r, withCommit)
    \/ DeleteRecurse
    \/ DeleteOverflow
    \/ SessionCommit

SpecCommit == Init /\ [][CommitNext]_vars

\* What create, create_many and update do with the flag: with commit=True
\* the instances are in the committed table as returned; with commit=False
\* the committed table is as it was and the instances are staged.
CommitFlagObeyedByWrites ==
    (ret.op \in {"create", "create_many", "update"} /\ ret.caller = "repository"
        /\ ret.exc = NoExc) =>
        /\ ret.val # {}
        /\ ret.commit =>
              \A v \in ret.val : \E s \in store : s.row = v.row /\ s.id # NoId
        /\ (ret.commit /\ ret.op # "create_many") => ret.val \subseteq store
        /\ ~ret.commit =>
              /\ \A v \in ret.val : v \in session
              /\ ret.op # "create" => store = ret.committed
              /\ ret.op = "create" => \A v \in ret.val : v.id = NoId /\ v \notin store

\* C11: every mutating operation of the repository (create, create_many,
\* update, delete) obeys its commit flag: with commit=True the change is
\* committed when the operation returns (and a created or updated instance
\* is refreshed); with commit=False nothing is committed and the change
\* stays staged in the session.
C11_CommitFlagObeyed ==
    /\ CommitFlagObeyedByWrites
    /\ ret.op = "delete" =>
          /\ ret.exc = NoExc
          /\ ret.obj \notin session
          /\ ret.commit => ret.obj \notin store

\* ================================================================ slugs
\* Texts and slugs are sequences of one-character strings.
SuffixLen == 4        \* random.choices(..., k=4)

\* string.ascii_lowercase + string.digits
SuffixChars ==
    {"a", "b", "c", "d", "e", "f", "g", "h", "i", "j", "k", "l", "m",
     "n", "o", "p", "q", "r", "s", "t", "u", "v", "w", "x", "y", "z",
     "0", "1", "2", "3", "4", "5", "6", "7", "8", "9"}

\* The outcomes of random.choices followed in the model: three of the
\* strings of SuffixLen characters.
Suffixes ==
    {s \in {<<"a", "a", "a", "a">>, <<"a", "9", "a", "9">>, <<"9", "z", "0", "9">>} :
        Len(s) = SuffixLen /\ \A i \in 1..SuffixLen : s[i] \in SuffixChars}

\* Texts handed to get_available_slug; two of them have the same slug.
Texts == {<<"A">>, <<"a", " ">>, <<"A", " ", "b">>}

\* str.lower on the characters of the texts.
Lower(c) == IF c = "A" THEN "a" ELSE IF c = "B" THEN "b" ELSE c

\* Characters that separate words.
IsSeparator(c) == c \in {" ", "_", "-"}

\* A hyphen at the start or after a hyphen is dropped.
RECURSIVE Squeeze(_, _)
Squeeze(s, afterHyphen) ==
    IF s = << >> THEN << >>
    ELSE IF Head(s) = "-"
         THEN IF afterHyphen THEN Squeeze(Tail(s), TRUE)
              ELSE <<"-">> \o Squeeze(Tail(s), TRUE)
         ELSE <<Head(s)>> \o Squeeze(Tail(s), FALSE)

\* A hyphen at the end is dropped.
StripTrailing(s) ==
    IF s # << >> /\ s[Len(s)] = "-" THEN SubSeq(s, 1, Len(s) - 1) ELSE s

\* slugify(text): lowercase; every run of word separators becomes one
\* hyphen, none at either end.
slugify(text) ==
    StripTrailing(Squeeze([i \in 1..Len(text) |->
                              IF IsSeparator(text[i]) THEN "-" ELSE Lower(text[i])], TRUE))

\* The record stored under a slug.
SlugPayload(slug) == [slug |-> slug, a |-> 1, b |-> 2]

\* Mutant: every slug is reported unique.
is_slug_unique_unchecked(rows, slug, exc) ==
    [exc |-> exc, unique |-> TRUE, lookups |-> 1]

\* SlugRepositoryMixin._is_slug_unique: one SELECT slug WHERE slug = :slug
\* through get_one_or_none; unique when it returns None.
is_slug_unique(rows, slug, exc) ==
    LET res == get_one_or_none(rows, Statement(FilterBy("slug", slug), "none", FALSE,
                                               NoLimit, NoLimit), exc)
    IN  [exc |-> res.exc, unique |-> res.val = {}, lookups |-> 1]

\* Mutant: the suffix is appended whether the slug is taken or not.
get_available_slug_always_suffixed(rows, text, suffix, exc) ==
    LET slug == slugify(text)
        checked == is_slug_unique(rows, slug, exc)
    IN  [exc |-> checked.exc, lookups |-> checked.lookups,
         suffixed |-> checked.exc = NoExc,
         slug |-> IF checked.exc # NoExc THEN << >>
                  ELSE slug \o <<"-">> \o suffix]

\* SlugRepositoryMixin.get_available_slug: the slug of the text when no row
\* has it, else that slug, a hyphen and the random string; `suffix` is the
\* outcome of random.choices.
get_available_slug(rows, text, suffix, exc) ==
    LET slug == slugify(text)
        checked == is_slug_unique(rows, slug, exc)
    IN  [exc |-> checked.exc, lookups |-> checked.lookups,
         suffixed |-> checked.exc = NoExc /\ ~checked.unique,
         slug |-> IF checked.exc # NoExc THEN << >>
                  ELSE IF checked.unique THEN slug
                  ELSE slug \o <<"-">> \o suffix]

\* repository.get_available_slug(text, db); random.choices is called, and
\* draws `suffix`, only when the slug is taken.  `prev` is the slug this
\* call follows: the one returned for the same text and persisted just before.
GetAvailableSlug(text) ==
    /\ call = Idle
    /\ LET ex == execute("none")
           free == is_slug_unique(ex.rows, slugify(text), ex.exc).unique
       IN  \E suffix \in IF free THEN {<< >>} ELSE Suffixes :
             LET res == get_available_slug(ex.rows, text, suffix, ex.exc)
             IN  /\ session' = ex.rows
                 /\ seq' = ex.seq
                 /\ ret' = [op |-> "get_available_slug", text |-> text, suffix |-> suffix,
                            exc |-> res.exc, slug |-> res.slug, lookups |-> res.lookups,
                            prev |-> IF ret.op = "create" /\ ret.caller = "slug"
                                        /\ ret.exc = NoExc /\ ret.text = text
                                     THEN {ret.slug} ELSE {}]
    /\ UNCHANGED <<model, store, objs, now, call, created>>

\* The caller persists a record under the slug it was just given:
\* Repository.create(Model(slug=slug, ...), commit=True).
PersistSlug ==
    /\ call = Idle
    /\ ret.op = "get_available_slug" /\ ret.exc = NoExc
    /\ objs < MaxCreates
    /\ LET inst == NewInstance(SlugPayload(ret.slug))
           res == AddAndCommit(session \cup {inst}, inst, TRUE, model, seq, now)
       IN  /\ session' = res.session
           /\ store' = res.store
           /\ seq' = res.seq
           /\ ret' = [op |-> "create", caller |-> "slug", commit |-> TRUE,
                      dup |-> \E r \in store : r.slug = ret.slug,
                      exc |-> res.exc, val |-> res.val,
                      text |-> ret.text, slug |-> ret.slug]
           /\ created' = IF res.exc = NoExc
                         THEN created \cup {[row |-> r.row, id |-> r.id] : r \in res.val}
                         ELSE created
    /\ objs' = objs + 1
    /\ UNCHANGED <<model, now, call>>

\* ------------------------------------------------ slug specification
\* A caller that asks for slugs and persists records under them.
SlugNext ==
    \/ \E text \in Texts : GetAvailableSlug(text)
    \/ PersistSlug

SpecSlug == Init /\ [][SlugNext]_vars

\* C12: get_available_slug(text) makes exactly one uniqueness lookup; when
\* no stored record has the slug of the text it returns that slug, else it
\* returns that slug, a hyphen and 4 characters out of lowercase letters
\* and digits, whether or not the result is itself a stored slug.
C12_SingleLookupThenSuffix ==
    (ret.op = "get_available_slug" /\ ret.exc = NoExc) =>
        LET canonical == slugify(ret.text)
            taken == \E r \in session : r.slug = canonical
        IN  /\ ret.lookups = 1
            /\ ~taken => ret.slug = canonical
            /\ taken =>
                  /\ Len(ret.slug) = Len(canonical) + 1 + SuffixLen
                  /\ SubSeq(ret.slug, 1, Len(canonical)) = canonical
                  /\ ret.slug[Len(canonical) + 1] = "-"
                  /\ \A i \in 1..SuffixLen : ret.slug[Len(canonical) + 1 + i] \in SuffixChars

\* A suffixed slug was returned although a record is stored under it.
C12_Witness ==
    /\ ret.op = "get_available_slug" /\ ret.exc = NoExc
    /\ ret.slug # slugify(ret.text)
    /\ \E r \in store : r.slug = ret.slug

\* C13 as stated: when get_available_slug(x) is called, a record is
\* persisted under the result and get_available_slug(x) is called again,
\* the second result is not the first, for every outcome of the random
\* draw; it is the slug of x, a hyphen and the suffix drawn.
C13_SecondSlugDiffers ==
    (ret.op = "get_available_slug" /\ ret.exc = NoExc /\ ret.prev # {}) =>
        /\ ret.slug \notin ret.prev
        /\ ret.slug = slugify(ret.text) \o <<"-">> \o ret.suffix

\* C13 amended: the second result is always the slug of x, a hyphen and the
\* suffix drawn; it differs from the first whenever the first was the bare
\* slug of x (the slug was free at the first call), for every draw.
C13_SecondSlugDiffersAfterFreeSlug ==
    (ret.op = "get_available_slug" /\ ret.exc = NoExc /\ ret.prev # {}) =>
        /\ ret.slug = slugify(ret.text) \o <<"-">> \o ret.suffix
        /\ Len(ret.suffix) = SuffixLen
        /\ ret.prev = {slugify(ret.text)} => ret.slug \notin ret.prev

\* The second of two calls for a text whose slug was free at the first.
C13_Witness ==
    /\ ret.op = "get_available_slug" /\ ret.exc = NoExc
    /\ ret.prev = {slugify(ret.text)}
    /\ ret.slug # slugify(ret.text)
    /\ \E r \in store : r.slug = slugify(ret.text)

\* ------------------------------------------- concurrent slug writers
\* Tasks (requests) that each call get_available_slug and then create.
\* Each task has a session of its own, which reads the committed table;
\* create(commit=True) flushes and commits in one step of the engine.
Tasks == {"t1", "t2"}

\* A record committed before the tasks start.
ExistingRecord ==
    [row |-> 0, id |-> NextId(model, 1), slug |-> slugify(<<"A">>), a |-> 1, b |-> 2,
     expires_at |-> Lifetime]

TaskStart == [pc |-> "start", text |-> << >>, slug |-> << >>, dup |-> FALSE, exc |-> NoExc]

TasksInit ==
    /\ model \in Models
    /\ store \in {{}, {ExistingRecord}}
    /\ session = store
    /\ seq = Cardinality(store)
    /\ objs = 0
    /\ now = 0
    /\ call = [op |-> "tasks", task |-> [t \in Tasks |-> TaskStart]]
    /\ ret = NoRet
    /\ created = {}

\* Task t calls get_available_slug(text): its lookup sees the committed rows.
TaskGetSlug(t, text) ==
    /\ call.op = "tasks"
    /\ call.task[t].pc = "start"
    /\ LET free == is_slug_unique(store, slugify(text), NoExc).unique
       IN  \E suffix \in IF free THEN {<< >>} ELSE Suffixes :
             call' = [call EXCEPT !.task[t] =
                         [@ EXCEPT !.pc = "checked", !.text = text,
                                   !.slug = get_available_slug(store, text, suffix, NoExc).slug]]
    /\ UNCHANGED <<model, store, session, seq, objs, now, ret, created>>

\* Task t calls Repository.create(Model(slug=slug), commit=True).
TaskCreate(t) ==
    /\ call.op = "tasks"
    /\ call.task[t].pc = "checked"
    /\ objs < MaxCreates
    /\ LET inst == NewInstance(SlugPayload(call.task[t].slug))
           res == AddAndCommit(store \cup {inst}, inst, TRUE, model, seq, now)
       IN  /\ store' = res.store
           /\ session' = res.store
           /\ seq' = res.seq
           /\ call' = [call EXCEPT !.task[t] =
                          [@ EXCEPT !.pc = "done", !.exc = res.exc,
                                    !.dup = \E r \in store : r.slug = call.task[t].slug]]
           /\ created' = IF res.exc = NoExc
                         THEN created \cup {[row |-> r.row, id |-> r.id] : r \in res.val}
                         ELSE created
    /\ objs' = objs + 1
    /\ UNCHANGED <<model, now, ret>>

TasksNext ==
    \/ \E t \in Tasks, text \in Texts : TaskGetSlug(t, text)
    \/ \E t \in Tasks : TaskCreate(t)

SpecSlugTasks == TasksInit /\ [][TasksNext]_vars

\* No two committed records have the same slug, and of two tasks that were
\* given the same slug at most one has written its record.
SlugsUniqueInStore ==
    /\ \A r, q \in store : r # q => r.slug # q.slug
    /\ call.op = "tasks" =>
          \A t, u \in Tasks :
              (t # u /\ call.task[t].pc = "done" /\ call.task[u].pc = "done"
                  /\ call.task[t].slug = call.task[u].slug) =>
                  ~(call.task[t].exc = NoExc /\ call.task[u].exc = NoExc)

\* C14: under every interleaving of tasks that call get_available_slug and
\* then create, no two stored records have the same slug: of two tasks
\* that obtained the same slug at most one write succeeds, and a write
\* that met a stored slug surfaces as the conflict error.
C14_SlugsUniqueUnderInterleaving ==
    /\ SlugsUniqueInStore
    /\ call.op = "tasks" =>
          \A t \in Tasks :
              (call.task[t].pc = "done" /\ call.task[t].dup) =>
                  call.task[t].exc.type = "RepositoryConflictException"

\* ============================================================ order_by
MaxOrdering == 2      \* entries in the ordering list handed to order_by

\* The mapped classes: M (the repository's model) has columns id and a, a
\* relationship `parent` to P loaded lazily and a relationship `kin` to P
\* loaded by join; P has columns id and name.
NoAttr == [kind |-> "none", target |-> "none", lazy |-> "none"]
Attr(cls, name) ==
    IF cls = "M" /\ name \in {"id", "a"} THEN [kind |-> "column", target |-> "none", lazy |-> "none"]
    ELSE IF cls = "M" /\ name = "parent" THEN [kind |-> "relationship", target |-> "P", lazy |-> "select"]
    ELSE IF cls = "M" /\ name = "kin" THEN [kind |-> "relationship", target |-> "P", lazy |-> "joined"]
    ELSE IF cls = "P" /\ name \in {"id", "name"} THEN [kind |-> "column", target |-> "none", lazy |-> "none"]
    ELSE NoAttr

\* Accessor paths of ordering entries: local fields, paths through either
\* relationship, paths with an invalid first or last hop, the empty path.
Paths ==
    {<<"a">>, <<"zz">>, <<"parent", "name">>, <<"parent", "zz">>,
     <<"kin", "name">>, <<"zz", "name">>, << >>}
OrderEntries == [accessors : Paths, is_desc : BOOLEAN]
Orderings == UNION {[1..n -> OrderEntries] : n \in 0..MaxOrdering}

\* A Select as order_by sees it: its ORDER BY terms and its joins.
EmptySelect == [order |-> << >>, joins |-> << >>]
Unbound == [cls |-> "none", name |-> "none"]

\* Lines 273-283: the loop over the accessors of a path.  `field` is the
\* local variable, which keeps its value when getattr raises.
RECURSIVE Walk(_, _, _, _)
Walk(cls, accessors, statement, field) ==
    IF accessors = << >>
    THEN [statement |-> statement, field |-> field, valid_field |-> TRUE]
    ELSE LET attr == Attr(cls, Head(accessors))
             here == [cls |-> cls, name |-> Head(accessors)]
         IN  IF attr.kind = "none"
             THEN [statement |-> statement, field |-> field, valid_field |-> FALSE]
             ELSE IF attr.kind = "relationship"
             THEN Walk(attr.target, Tail(accessors),
                       IF attr.lazy # "joined"
                       THEN [statement EXCEPT !.joins = Append(@, Head(accessors))]
                       ELSE statement,
                       here)
             ELSE Walk(cls, Tail(accessors), statement, here)

\* statement.order_by(field.desc() if is_desc else field.asc())
AddOrder(statement, field, is_desc) ==
    [statement EXCEPT !.order = Append(@, [cls |-> field.cls, name |-> field.name,
                                           desc |-> is_desc])]

\* One pass of the loop of order_by (lines 262-286) for the entry e.
OrderByStep(e, statement, field) ==
    IF Len(e.accessors) = 1
    THEN IF Attr("M", e.accessors[1]).kind = "none"
         THEN [statement |-> statement, field |-> field, exc |-> NoExc]
         ELSE LET here == [cls |-> "M", name |-> e.accessors[1]]
              IN  [statement |-> AddOrder(statement, here, e.is_desc), field |-> here,
                   exc |-> NoExc]
    ELSE LET w == Walk("M", e.accessors, statement, field)
         IN  IF ~w.valid_field
             THEN [statement |-> w.statement, field |-> w.field, exc |-> NoExc]
             ELSE IF w.field = Unbound
             THEN [statement |-> w.statement, field |-> w.field,
                   exc |-> Raw("UnboundLocalError")]
             ELSE [statement |-> AddOrder(w.statement, w.field, e.is_desc),
                   field |-> w.field, exc |-> NoExc]

\* order_by(statement, ordering): the statement returned, or the exception.
RECURSIVE order_by(_, _, _)
order_by(ordering, statement, field) ==
    IF ordering = << >> THEN [statement |-> statement, exc |-> NoExc]
    ELSE LET step == OrderByStep(Head(ordering), statement, field)
         IN  IF step.exc # NoExc THEN [statement |-> step.statement, exc |-> step.exc]
             ELSE order_by(Tail(ordering), step.statement, step.field)

\* Repository.order_by(db, statement, ordering) is entered; `base` keeps
\* the statement as it was handed in.
OrderByOn(statement, ordering) ==
    /\ call = Idle
    /\ call' = [op |-> "order_by", ordering |-> ordering, rest |-> ordering,
                base |-> statement, statement |-> statement, field |-> Unbound]
    /\ ret' = NoRet
    /\ UNCHANGED <<model, store, session, seq, objs, now, created>>

\* order_by on a statement without ORDER BY and joins.
OrderBy(ordering) == OrderByOn(EmptySelect, ordering)

\* The loop body runs for the next entry of the ordering.
OrderByEntry ==
    /\ call.op = "order_by"
    /\ call.rest # << >>
    /\ LET step == OrderByStep(Head(call.rest), call.statement, call.field)
       IN  IF step.exc # NoExc
           THEN /\ ret' = [op |-> "order_by", ordering |-> call.ordering,
                           base |-> call.base,
                           statement |-> step.statement, exc |-> step.exc]
                /\ call' = Idle
           ELSE /\ call' = [call EXCEPT !.rest = Tail(@), !.statement = step.statement,
                                        !.field = step.field]
                /\ ret' = ret
    /\ UNCHANGED <<model, store, session, seq, objs, now, created>>

\* Line 287: return statement.
OrderByReturn ==
    /\ call.op = "order_by"
    /\ call.rest = << >>
    /\ ret' = [op |-> "order_by", ordering |-> call.ordering, base |-> call.base,
               statement |-> call.statement, exc |-> NoExc]
    /\ call' = Idle
    /\ UNCHANGED <<model, store, session, seq, objs, now, created>>

\* order_by touches nothing but the statement: one call per behaviour.
OrderNext ==
    \/ /\ ret = NoRet
       /\ \E ordering \in Orderings : OrderBy(ordering)
    \/ OrderByEntry
    \/ OrderByReturn

SpecOrder == Init /\ [][OrderNext]_vars

\* An entry order_by cannot resolve: a single field the model does not
\* have, or a path of several hops one of which does not exist.
RECURSIVE Resolves(_, _)
Resolves(cls, accessors) ==
    IF accessors = << >> THEN TRUE
    ELSE LET attr == Attr(cls, Head(accessors))
         IN  /\ attr.kind # "none"
             /\ Resolves(IF attr.kind = "relationship" THEN attr.target ELSE cls,
                         Tail(accessors))
Unresolvable(e) == e.accessors # << >> /\ ~Resolves("M", e.accessors)

\* The ordering without its unresolvable entries.
RECURSIVE Resolvable(_)
Resolvable(ordering) ==
    IF ordering = << >> THEN << >>
    ELSE IF Unresolvable(Head(ordering)) THEN Resolvable(Tail(ordering))
         ELSE <<Head(ordering)>> \o Resolvable(Tail(ordering))

\* C15: order_by never raises on an entry it cannot resolve and returns
\* the query it returns with that entry left out: a skipped path adds no
\* ORDER BY term and no join, whether its first hop or a later one fails.
C15_UnresolvableEntrySkipped ==
    (ret.op = "order_by" /\ \E i \in DOMAIN ret.ordering : Unresolvable(ret.ordering[i])) =>
        LET expected == order_by(Resolvable(ret.ordering), EmptySelect, Unbound)
        IN  /\ ret.exc = expected.exc
            /\ ret.statement = expected.statement

\* ------------------------------------------------ get_multi ordering
\* The values of column col down a result sequence.
Keys(sq, col) == [i \in 1..Len(sq) |-> sq[i][col]]

\* The page of the rows matching the filter of the last get_multi, sorted
\* by col in the given direction.
PageOrderedBy(col, desc) ==
    Window(SortRows(Matching(store, ret.stmt), col, desc), ret.limit, ret.skip)

\* The last get_multi named a sort field the model has.
SortFieldExists == ret.args.order_by \in PageColumns

\* C16: a get_multi without sort field, or with one the model does not
\* have, returns its page ordered by primary key, descending.
C16_FallbackPrimaryKeyDescending ==
    (ret.op = "paginate" /\ ret.caller = "service" /\ ret.exc = NoExc
        /\ ~SortFieldExists) =>
        Keys(ret.results, "id") = Keys(PageOrderedBy("id", TRUE), "id")

\* C17: a get_multi with a sort field the model has returns its page
\* ordered by that field, in the direction asked for and descending when
\* none was given.
C17_OrderedBySortField ==
    (ret.op = "paginate" /\ ret.caller = "service" /\ ret.exc = NoExc
        /\ SortFieldExists) =>
        Keys(ret.results, ret.args.order_by) =
            Keys(PageOrderedBy(ret.args.order_by, ret.args.sort_order # "asc"),
                 ret.args.order_by)

\* ------------------------------------------------------ expiry claims
\* C18: delete_expired removes every record whose expires_at is strictly
\* before the time of the call and leaves every other record in the table,
\* unmodified.
C18_DeleteExpiredFrame ==
    (ret.op = "delete_expired" /\ ret.exc = NoExc) =>
        /\ \A r \in ret.before : r.expires_at < ret.at => r \notin session
        /\ \A r \in ret.before : r.expires_at >= ret.at => r \in session
        /\ session \subseteq ret.before

\* A sweep removed one record and kept one that expires at that very time.
C18_Witness ==
    /\ ret.op = "delete_expired" /\ ret.exc = NoExc
    /\ \E r \in ret.before : r.expires_at < ret.at
    /\ \E r \in session : r.expires_at = ret.at

\* ============================================================ timestamps
\* Values a caller puts into a timestamp attribute: a time before the
\* process started and a time the clock does not reach.
CallerTimes == {Lifetime \div 2, (MaxTime + 2) * Lifetime}

\* Instances of a model with CreatedUpdatedAtMixin; updated_at is left
\* unset or set by the caller.
TimedCreatePayloads ==
    [slug : Slugs, a : {1}, b : {2}, created_at : {NoTime},
     updated_at : {NoTime} \cup CallerTimes]

\* Update payloads: a data column, the values the record has, updated_at
\* set to a time or to None.
TimedUpdatePayloads ==
    {[b |-> 3], [a |-> 1, b |-> 2]}
    \cup {[updated_at |-> t] : t \in CallerTimes \cup {NoTime}}

TimedInit ==
    /\ model = "uuid"
    /\ store = {}
    /\ session = {}
    /\ seq = 0
    /\ objs = 0
    /\ now = ImportTime
    /\ call = Idle
    /\ ret = NoRet
    /\ created = {}

\* Service.create, Service.update and the clock on a timestamped model.
TimedNext ==
    \/ \E p \in TimedCreatePayloads : Create("service", p, TRUE)
    \/ \E r \in session, p \in TimedUpdatePayloads : Update(r, p)
    \/ Tick

SpecTimed == TimedInit /\ [][TimedNext]_vars

\* The stored state of the record the last create or update wrote.
Written ==
    IF ret.op = "update" THEN {r \in store : r.row = ret.old.row}
    ELSE IF ret.op = "create" THEN {r \in store : r.row \in {v.row : v \in ret.val}}
    ELSE {}

\* C19: every flushed update of a timestamped record stores updated_at =
\* the time of that flush, whatever the caller did, the first update of a
\* record whose updated_at was never set included.
C19_UpdateRefreshesUpdatedAt ==
    (ret.op = "update" /\ ret.exc = NoExc /\ "updated_at" \in DOMAIN ret.old) =>
        \A r \in Written : r.updated_at = ret.at

\* C20: the stored updated_at of a record never decreases from one write
\* to the next, and after a write in which the caller assigned updated_at
\* the stored value is the time of the flush, not the caller's value.
C20_UpdatedAtMonotoneAndNotCallerSet ==
    [][ /\ \A r \in store, q \in store' :
              (r.row = q.row /\ "updated_at" \in DOMAIN r) => q.updated_at >= r.updated_at
        /\ (ret'.op \in {"create", "update"} /\ ret'.exc = NoExc
               /\ "updated_at" \in DOMAIN ret'.payload
               /\ ret'.payload.updated_at # NoTime) =>
              \A q \in store' :
                  (q.row \in {v.row : v \in IF ret'.op = "update" THEN {ret'.old}
                                              ELSE ret'.val}) =>
                      q.updated_at = ret'.at ]_vars

\* ------------------------------------------ created_at specification
\* Instances created without timestamps, updates of a data column and of
\* created_at, and the clock.
CreatedAtCreatePayloads ==
    [slug : Slugs, a : {1}, b : {2}, created_at : {NoTime}, updated_at : {NoTime}]
CreatedAtUpdatePayloads == {[b |-> 3]} \cup {[created_at |-> t] : t \in CallerTimes}

CreatedAtNext ==
    \/ \E p \in CreatedAtCreatePayloads : Create("service", p, TRUE)
    \/ \E r \in session, p \in CreatedAtUpdatePayloads : Update(r, p)
    \/ Tick

SpecCreatedAt == TimedInit /\ [][CreatedAtNext]_vars

\* C21: created_at is set once, at insert, to the time of that insert and
\* is kept by every later update, one whose payload has a created_at key
\* included; records inserted at different times have different created_at
\* values, in the order of insertion.
C21_CreatedAtSetOnceAtInsert ==
    [][ /\ (ret'.op = "create" /\ ret'.exc = NoExc /\ ret' # ret) =>
              \A v \in ret'.val : v.created_at = ret'.at
        /\ \A r \in store, q \in store' :
              (r.row = q.row /\ "created_at" \in DOMAIN r) => q.created_at = r.created_at
        /\ \A r \in store', q \in store' :
              (r.row < q.row /\ "created_at" \in DOMAIN r) => r.created_at <= q.created_at ]_vars

\* ======================================== records that match no row
\* An instance whose id no stored row has: "transient" was constructed by
\* the caller with that id, "detached" was loaded before its row went.
AbsentKinds == {"transient", "detached"}
AbsentInstance(slug) ==
    [row |-> objs + 1, id |-> ForeignId, slug |-> slug, a |-> 1, b |-> 2,
     expires_at |-> Lifetime]

\* Repository.update(db_object, commit) on such an instance.  db.add makes
\* a transient instance pending: the flush INSERTs it (an identity column
\* generated ALWAYS rejects the explicit id).  A detached instance becomes
\* persistent: the flush emits UPDATE ... WHERE id = :id when an attribute
\* was changed, which matches no row (StaleDataError) and fails the flush;
\* otherwise the flush emits nothing for it, db.commit() commits what else
\* the session had staged, and db.refresh finds no row
\* (InvalidRequestError).  Both are raised outside the translation boundary.
\* Without commit the instance is only attached to the session.
UpdateAbsent(kind, slug, changed, withCommit) ==
    /\ call = Idle
    /\ objs < MaxCreates
    /\ \A r \in session : r.id # ForeignId
    /\ (kind = "transient" /\ model = "identity") => withCommit
    /\ LET inst == AbsentInstance(slug)
           ins == AddAndCommit(session \cup {inst}, inst, withCommit, model, seq, now)
           fl == Flush(session, Modified(session), model, seq, now)
           res == IF kind = "transient" /\ (model = "uuid" \/ ~withCommit) THEN ins
                  ELSE IF ~withCommit
                  THEN [session |-> session, store |-> store, seq |-> seq, val |-> {inst},
                        exc |-> NoExc]
                  ELSE IF kind = "detached" /\ ~changed
                  THEN [session |-> fl.rows,
                        store |-> IF fl.exc = "none" THEN fl.rows ELSE store,
                        seq |-> fl.seq, val |-> {},
                        exc |-> IF fl.exc = "none" THEN Raw("InvalidRequestError")
                                ELSE commit(fl.exc)]
                  ELSE [session |-> store, store |-> store, seq |-> seq, val |-> {},
                        exc |-> IF kind = "transient" THEN commit("DBAPIError")
                                ELSE commit("StaleDataError")]
       IN  /\ session' = res.session
           /\ store' = res.store
           /\ seq' = res.seq
           /\ ret' = [op |-> "update", caller |-> "repository", commit |-> withCommit,
                      absent |-> kind, obj |-> inst, committed |-> store,
                      exc |-> res.exc, val |-> res.val]
    /\ objs' = objs + 1
    /\ UNCHANGED <<model, now, call, created>>

\* Repository.delete(db_object, commit) on such an instance.
DeleteAbsent(slug, withCommit) ==
    /\ call = Idle
    /\ objs < MaxCreates
    /\ \A r \in session : r.id # ForeignId
    /\ DeleteEnter("repository", AbsentInstance(slug), withCommit, session)
    /\ ret' = NoRet
    /\ objs' = objs + 1
    /\ UNCHANGED <<model, store, session, seq, now, created>>

AbsentNext ==
    \/ \E p \in CreatePayloads : Create("repository", p, TRUE)
    \/ \E kind \in AbsentKinds, slug \in Slugs, changed, withCommit \in BOOLEAN :
          UpdateAbsent(kind, slug, changed, withCommit)
    \/ \E slug \in Slugs, withCommit \in BOOLEAN : DeleteAbsent(slug, withCommit)
    \/ DeleteRecurse
    \/ DeleteOverflow

SpecAbsent == Init /\ [][AbsentNext]_vars

\* C22: an update or delete of a record whose id matches no stored row
\* raises the repository's not-found error instead of completing.
C22_AbsentRecordRaisesNotFound ==
    (ret.op \in {"update", "delete"} /\ ret.caller = "repository"
        /\ ret.obj.id = ForeignId) =>
        ret.exc.type = "RepositoryNotFoundException"

\* ------------------------------------ paginate beside other writers
\* Another task commits an INSERT or a DELETE on a connection of its own
\* while the two queries of paginate are in flight.  The engine is created
\* without an isolation level (db.py 23), so each statement of the session
\* reads the rows committed when that statement starts.
OtherInsert(a) ==
    /\ call.op = "paginate"
    /\ objs < MaxRows
    /\ store' = store \cup {PageRow(objs + 1, a)}
    /\ session' = store'
    /\ objs' = objs + 1
    /\ seq' = seq + 1
    /\ UNCHANGED <<model, now, call, ret, created>>

OtherDelete(r) ==
    /\ call.op = "paginate"
    /\ r \in store
    /\ store' = store \ {r}
    /\ session' = store'
    /\ UNCHANGED <<model, seq, objs, now, call, ret, created>>

PageTasksNext ==
    \/ /\ ret = NoRet
       /\ \E flt \in PageFilters, limit \in 1..MaxLimit, offset \in 0..MaxOffset :
             Paginate(Statement(flt, "none", FALSE, NoLimit, NoLimit), limit, offset)
    \/ PaginateCount
    \/ PaginatePage
    \/ PaginateReturn
    \/ \E a \in Vals : OtherInsert(a)
    \/ \E r \in store : OtherDelete(r)

SpecPageTasks == PageInit /\ [][PageTasksNext]_vars

\* C23: the count and the page of one paginate call are snapshots of the
\* same rows, under every interleaving of its two queries with the commits
\* of other tasks: the page holds min(limit, max(0, total_count - offset))
\* records.
C23_CountAndPageConsistent ==
    (ret.op = "paginate" /\ ret.caller = "repository" /\ ret.exc = NoExc) =>
        Len(ret.results) = Min(ret.limit, Max(0, ret.count - ret.skip))

\* ====================================================== unit of work
\* Response statuses of a request: two inside 200-299, its two edges
\* outside, a client error and a server error.
Statuses == {199, 200, 299, 300, 404, 500}
IsSuccess(status) == 200 <= status /\ status < 300

\* The end of a unit of work on the session: commit flushes the staged rows
\* and commits them, rollback discards them.
UnitEnd(how, failed) ==
    LET fl == Flush(session, Modified(session), model, seq, now)
    IN  /\ session' = IF failed THEN store ELSE fl.rows
        /\ store' = IF failed \/ fl.exc # "none" THEN store ELSE fl.rows
        /\ seq' = IF failed THEN seq ELSE fl.seq
        /\ ret' = [op |-> "unit", caller |-> how, failed |-> failed,
                   exc |-> IF failed THEN NoExc ELSE Raw(fl.exc)]

\* DataAccessService.with_session is left: session.begin() commits when the
\* block returned and rolls back when an exception left it.
WithSessionExit(raised) ==
    /\ call = Idle
    /\ UnitEnd("with_session", raised)
    /\ UNCHANGED <<model, objs, now, call, created>>

\* The body shared by session_after_request (hooks.py 28-32) and
\* DatabaseSessionMiddleware._manage_session: commit for a status in
\* 200-299, rollback otherwise, then remove.  `calls` are the calls made
\* on the scoped session, in order; a commit whose flush fails raises, and
\* the statement after it is not reached.
ManageSession(status) ==
    LET fl == Flush(session, Modified(session), model, seq, now)
        ok == IsSuccess(status)
    IN  [session |-> IF ok THEN fl.rows ELSE store,
         store |-> IF ok /\ fl.exc = "none" THEN fl.rows ELSE store,
         seq |-> IF ok THEN fl.seq ELSE seq,
         exc |-> IF ok THEN Raw(fl.exc) ELSE NoExc,
         calls |-> IF ~ok THEN <<"rollback", "remove">>
                   ELSE IF fl.exc = "none" THEN <<"commit", "remove">>
                   ELSE <<"commit">>]

\* session_after_request(response) on the scoped session of the request.
session_after_request(status) ==
    /\ call = Idle
    /\ LET m == ManageSession(status)
       IN  /\ session' = m.session
           /\ store' = m.store
           /\ seq' = m.seq
           /\ ret' = [op |-> "unit", caller |-> "after_request",
                      failed |-> ~IsSuccess(status), status |-> status,
                      exc |-> m.exc, calls |-> m.calls]
    /\ UNCHANGED <<model, objs, now, call, created>>

\* One unit of work from the empty table: creates and updates through the
\* service, then its end.
UnitNext ==
    \/ /\ ret.op # "unit"
       /\ \E p \in CreatePayloads : Create("service", p, TRUE)
    \/ /\ ret.op # "unit"
       /\ \E r \in session, p \in UpdatePayloads : Update(r, p)
    \/ /\ ret.op # "unit"
       /\ \E raised \in BOOLEAN : WithSessionExit(raised)
    \/ /\ ret.op # "unit"
       /\ \E status \in Statuses : session_after_request(status)

SpecUnit == Init /\ [][UnitNext]_vars

\* C24: when a unit of work ends in failure (an exception leaves
\* with_session, or the response status is outside 200-299), none of the
\* creates and updates made through the service during it is in the
\* committed store: the table is the empty table the unit started from.
C24_FailedUnitLeavesNothingCommitted ==
    (ret.op = "unit" /\ ret.failed) => store = {}

\* --------------------------------- count of statements with clauses
\* Repository.count(statement) called directly.
Count(stmt) ==
    /\ call = Idle
    /\ LET res == count(session, stmt)
       IN  ret' = [op |-> "count", caller |-> "repository", stmt |-> stmt,
                   exc |-> res.exc, count |-> res.val]
    /\ UNCHANGED <<model, store, session, seq, objs, now, call, created>>

\* Statements that carry ORDER BY, LIMIT and OFFSET clauses of their own.
ClauseStatements ==
    {Statement(flt, ordcol, FALSE, lim, off) :
        flt \in PageFilters, ordcol \in {"none", "a"},
        lim \in {NoLimit} \cup 0..MaxLimit, off \in {NoLimit} \cup 0..MaxOffset}

CountNext ==
    \/ /\ ret = NoRet
       /\ \E stmt \in ClauseStatements : Count(stmt)
    \/ /\ ret = NoRet
       /\ \E stmt \in ClauseStatements, offset \in {0, 1} : Paginate(stmt, MaxLimit, offset)
    \/ PaginateCount
    \/ PaginatePage
    \/ PaginateReturn

SpecCount == PageInit /\ [][CountNext]_vars

\* C25: Repository.count(query) and the total_count of
\* Repository.paginate(query, ...) are the number of rows matching the
\* filter of the query, whatever ORDER BY, LIMIT or OFFSET the query itself
\* carries.
C25_CountIgnoresClausesOfQuery ==
    (ret.op \in {"count", "paginate"} /\ ret.caller = "repository") =>
        /\ ret.exc = NoExc
        /\ ret.count = TotalMatching(ret.stmt)

\* ------------------------------------------- order of ORDER BY terms
\* Statements handed to order_by: without ORDER BY, and ordered by id.
OrderedSelect ==
    [order |-> <<[cls |-> "M", name |-> "id", desc |-> TRUE]>>, joins |-> << >>]
BaseSelects == {EmptySelect, OrderedSelect}

OrderOnNext ==
    \/ /\ ret = NoRet
       /\ \E statement \in BaseSelects, ordering \in Orderings :
             OrderByOn(statement, ordering)
    \/ OrderByEntry
    \/ OrderByReturn

SpecOrderOn == Init /\ [][OrderOnNext]_vars

\* The attribute a path that resolves ends at.
RECURSIVE FinalField(_, _, _)
FinalField(cls, accessors, field) ==
    IF accessors = << >> THEN field
    ELSE LET attr == Attr(cls, Head(accessors))
         IN  FinalField(IF attr.kind = "relationship" THEN attr.target ELSE cls,
                        Tail(accessors), [cls |-> cls, name |-> Head(accessors)])

\* The ORDER BY terms of the entries that name an attribute, in input order.
RECURSIVE ResolvableTerms(_)
ResolvableTerms(ordering) ==
    IF ordering = << >> THEN << >>
    ELSE LET e == Head(ordering)
         IN  IF e.accessors # << >> /\ Resolves("M", e.accessors)
             THEN <<[cls |-> FinalField("M", e.accessors, Unbound).cls,
                     name |-> FinalField("M", e.accessors, Unbound).name,
                     desc |-> e.is_desc]>> \o ResolvableTerms(Tail(ordering))
             ELSE ResolvableTerms(Tail(ordering))

MaxMessages == 3      \* messages the wrapped app sends in one call

\* ASGI scopes and the messages an app sends in each: an http app sends
\* the response start, then body messages.
ScopeTypes == {"http", "websocket", "lifespan"}
NoStatus == 0
Message(type, status) == [type |-> type, status |-> status]
AppMessages(scope, msgs) ==
    IF scope = "http"
    THEN IF msgs = << >> THEN {Message("http.response.start", s) : s \in Statuses}
         ELSE {Message("http.response.body", NoStatus)}
    ELSE IF scope = "websocket"
    THEN {Message("websocket.accept", NoStatus), Message("websocket.send", NoStatus)}
    ELSE {Message("lifespan.startup.complete", NoStatus)}

AllMessages ==
    {Message("http.response.start", s) : s \in Statuses} \cup
    {Message(t, NoStatus) : t \in {"http.response.body", "websocket.accept",
                                   "websocket.send", "lifespan.startup.complete"}}

\* Events of a call of the middleware: a call on the scoped session, or a
\* message handed to the send of the server.
SessionCall(name) == [ev |-> name, msg |-> Message("none", NoStatus)]
Sent(message) == [ev |-> "send", msg |-> message]
SessionCalls(calls) == [i \in 1..Len(calls) |-> SessionCall(calls[i])]

\* The original send: the message goes to the server.
send(message) ==
    [session |-> session, store |-> store, seq |-> seq, exc |-> NoExc,
     events |-> <<Sent(message)>>]

\* Mutant: the response start is forwarded before the session is managed.
send_wrapper_forward_first(message) ==
    IF message.type = "http.response.start"
    THEN LET m == ManageSession(message.status)
         IN  [session |-> m.session, store |-> m.store, seq |-> m.seq, exc |-> m.exc,
              events |-> <<Sent(message)>> \o SessionCalls(m.calls)]
    ELSE send(message)

\* send_wrapper(message), middleware.py 32-35.
send_wrapper(message) ==
    IF message.type = "http.response.start"
    THEN LET m == ManageSession(message.status)
         IN  [session |-> m.session, store |-> m.store, seq |-> m.seq, exc |-> m.exc,
              events |-> SessionCalls(m.calls) \o
                         (IF m.exc = NoExc THEN <<Sent(message)>> ELSE << >>)]
    ELSE send(message)

\* DatabaseSessionMiddleware.__call__(scope, receive, send): the wrapped app
\* is called with send_wrapper for an http scope and with send otherwise.
MiddlewareCall(scope) ==
    /\ call = Idle
    /\ call' = [op |-> "asgi", scope |-> scope, msgs |-> << >>, events |-> << >>,
                entered |-> [session |-> session, store |-> store]]
    /\ UNCHANGED <<model, store, session, seq, objs, now, ret, created>>

\* The wrapped app awaits the send it was given; an exception raised there
\* leaves the app and the middleware.
AppSend(message) ==
    /\ call.op = "asgi"
    /\ Len(call.msgs) < MaxMessages
    /\ message \in AppMessages(call.scope, call.msgs)
    /\ LET r == IF call.scope = "http" THEN send_wrapper(message) ELSE send(message)
           now_ == [call EXCEPT !.msgs = Append(@, message), !.events = @ \o r.events]
       IN  /\ session' = r.session
           /\ store' = r.store
           /\ seq' = r.seq
           /\ IF r.exc = NoExc
              THEN call' = now_ /\ ret' = ret
              ELSE /\ call' = Idle
                   /\ ret' = [op |-> "asgi", scope |-> now_.scope, msgs |-> now_.msgs,
                              events |-> now_.events, entered |-> now_.entered,
                              exc |-> r.exc]
    /\ UNCHANGED <<model, objs, now, created>>

\* The wrapped app returns.
AppReturn ==
    /\ call.op = "asgi"
    /\ ret' = [op |-> "asgi", scope |-> call.scope, msgs |-> call.msgs,
               events |-> call.events, entered |-> call.entered, exc |-> NoExc]
    /\ call' = Idle
    /\ UNCHANGED <<model, store, session, seq, objs, now, created>>

\* One request: writes staged on the scoped session by the handler, then
\* the response through the hook or through the middleware.
RequestNext ==
    \/ /\ ret.op \notin {"unit", "asgi"}
       /\ \E p \in CreatePayloads : Create("repository", p, FALSE)
    \/ /\ ret.op \notin {"unit", "asgi"}
       /\ \E status \in Statuses : session_after_request(status)
    \/ /\ ret.op \notin {"unit", "asgi"}
       /\ \E scope \in ScopeTypes : MiddlewareCall(scope)
    \/ \E message \in AllMessages : AppSend(message)
    \/ AppReturn

SpecRequest == Init /\ [][RequestNext]_vars

\* The calls on the scoped session among the events, in order.
RECURSIVE CallsOf(_)
CallsOf(events) ==
    IF events = << >> THEN << >>
    ELSE IF Head(events).ev = "send" THEN CallsOf(Tail(events))
    ELSE <<Head(events).ev>> \o CallsOf(Tail(events))

\* What commit-or-rollback-then-remove is for a status.
ManagedAs(status) == <<IF IsSuccess(status) THEN "commit" ELSE "rollback", "remove">>

\* C27: for a request handled with the session hook or the middleware,
\* exactly one of commit and rollback is called on the scoped session,
\* commit exactly for a status in 200-299, and the session is then removed:
\* the calls are commit-or-rollback followed by remove.
C27_CommitOrRollbackThenRemove ==
    /\ (ret.op = "unit" /\ ret.caller = "after_request") =>
          ret.calls = ManagedAs(ret.status)
    /\ (ret.op = "asgi" /\ ret.scope = "http" /\ ret.msgs # << >>) =>
          CallsOf(ret.events) = ManagedAs(ret.msgs[1].status)

\* The call of the middleware in progress, or the one that has ended.
AsgiRun == IF call.op = "asgi" THEN call ELSE ret
AsgiRaised == call.op # "asgi" /\ ret.exc # NoExc

\* The messages handed to the send of the server, in order.
RECURSIVE SentOf(_)
SentOf(events) ==
    IF events = << >> THEN << >>
    ELSE IF Head(events).ev = "send" THEN <<Head(events).msg>> \o SentOf(Tail(events))
    ELSE SentOf(Tail(events))

\* The response start messages among msgs.
Starts(msgs) == {i \in DOMAIN msgs : msgs[i].type = "http.response.start"}

\* C28: the middleware forwards the response start only after the scoped
\* session was committed or rolled back and then removed, manages the
\* session at most once per response start message, forwards every other
\* message unchanged and in order, and in a non-http scope hands the app
\* the original send and makes no call on the session.
C28_StartForwardedAfterSessionManaged ==
    (call.op = "asgi" \/ ret.op = "asgi") =>
        LET run == AsgiRun
            events == run.events
        IN  /\ \A i \in DOMAIN events :
                  (events[i].ev = "send" /\ events[i].msg.type = "http.response.start") =>
                      /\ i >= 3
                      /\ events[i - 1].ev = "remove"
                      /\ events[i - 2].ev \in {"commit", "rollback"}
            /\ Cardinality({i \in DOMAIN events : events[i].ev \in {"commit", "rollback"}})
                  <= Cardinality(Starts(run.msgs))
            /\ SentOf(events) = IF AsgiRaised THEN SubSeq(run.msgs, 1, Len(run.msgs) - 1)
                                ELSE run.msgs
            /\ run.scope # "http" =>
                  /\ CallsOf(events) = << >>
                  /\ session = run.entered.session
                  /\ store = run.entered.store

\* A response with status in 200-299 went out after staged writes were
\* committed: start, then a body message, were forwarded.
C28_Witness ==
    /\ ret.op = "asgi" /\ ret.scope = "http" /\ ret.exc = NoExc
    /\ Len(ret.msgs) >= 2
    /\ CallsOf(ret.events) = <<"commit", "remove">>
    /\ store # ret.entered.store

\* ================================================ page parameters
MaxPage == 10         \* page numbers 1..MaxPage
MaxPageSize == 10     \* page sizes 1..MaxPageSize

\* The filter type LimitOffset: its first field is the limit, its second
\* the offset.
LimitOffset(limit, offset) == [limit |-> limit, offset |-> offset]

\* Mutant: the offset counts the requested page as already skipped.
limit_offset_pagination_from_page(page, page_size) ==
    LimitOffset(page_size, page_size * page)

\* limit_offset_pagination(page, page_size), filter_parameters.py 85.
limit_offset_pagination(page, page_size) ==
    LimitOffset(page_size, page_size * (page - 1))

\* The dependency is resolved for a request: Parameter(ge=1) admits page
\* and page_size from 1.
LimitOffsetPagination(page, page_size) ==
    /\ call = Idle
    /\ ret' = [op |-> "limit_offset", page |-> page, page_size |-> page_size,
               val |-> limit_offset_pagination(page, page_size)]
    /\ UNCHANGED <<model, store, session, seq, objs, now, call, created>>

PagingNext ==
    \E page \in 1..MaxPage, page_size \in 1..MaxPageSize :
        LimitOffsetPagination(page, page_size)

SpecPaging == Init /\ [][PagingNext]_vars

\* Row positions of a result long enough for the page after the last.
Positions == [i \in 1..((MaxPage + 1) * MaxPageSize) |-> i]

FailNext ==
    \/ \E p \in CreatePayloads, withCommit \in BOOLEAN : Create("repository", p, withCommit)
    \/ \E r \in session, p \in CommitPayloads : RepositoryUpdate(r, p, TRUE)
    \/ \E kind \in AbsentKinds, slug \in Slugs, changed \in BOOLEAN :
          UpdateAbsent(kind, slug, changed, TRUE)

SpecFail == Init /\ [][FailNext]_vars

\* C30: a Repository.create or Repository.update that raises leaves the
\* committed table exactly as it was before the call.
C30_FailedWriteLeavesStore ==
    [][(ret'.op \in {"create", "update"} /\ ret'.exc # NoExc) => store' = store]_vars

====
